---- MODULE Spec2Model ----
(***************************************************************************)
(* A model of ScriptAnalyzer (scriptanalyzer.py): split_script, the        *)
(* heuristic segmenter of a podcast script, and profanity_counter, the     *)
(* scan of the parsed script against a lexicon.                            *)
(*                                                                         *)
(* A text (a Python str) is a sequence of characters; a character is a     *)
(* one-character string, except the en dash U+2013, written EnDash.        *)
(* Python's None is the atom None; where None can be a dictionary key it   *)
(* is the key NoneKey, which no text equals.                               *)
(***************************************************************************)
EXTENDS Integers, Sequences, FiniteSets, Bags, TLC

VARIABLES
    pc,                 \* "split" | "loop" | "done" (split_script); "scan" | "scanned" (profanity_counter)
    raw_text,           \* self.raw_text
    text_chunks,        \* text_chunks, the four-newline blocks
    podcast_name,       \* podcast_name
    i,                  \* the loop index of split_script, 1-based
    last_speaker,       \* last_speaker
    beginning_info,     \* beginning_info
    content_warnings,   \* content_warnings
    ending_info,        \* ending_info
    parsed_keys,        \* the keys of self.parsed_dict in insertion order
    parsed_dict,        \* self.parsed_dict: key -> list of texts
    ignore_keys,        \* ignore_keys of profanity_counter, as a set
    censored_words,     \* self.pf.get_profane_words(), in iteration order
    k,                  \* position of profanity_counter in parsed_dict.items(), 1-based
    profanity_dict,     \* profanity_dict without 'overall': key -> record
    overall,            \* profanity_dict['overall']: <<>> until set, then <<counter>>
    all_profane_words,  \* all_profane_words
    most_profane        \* most_profane, <<key, count>>

splitVars == <<raw_text, text_chunks, podcast_name, i, last_speaker,
               beginning_info, content_warnings, ending_info>>
scanVars == <<ignore_keys, censored_words, k, profanity_dict, overall,
              all_profane_words, most_profane>>
vars == <<pc, splitVars, parsed_keys, parsed_dict, scanVars>>

----------------------------------------------------------------------------
(* Bounds of the model. *)

\* The number of four-newline blocks of a script is at most MaxBlocks.
MaxBlocks == 4
\* A scanned parsed_dict holds at most MaxPlaced text chunks over all sections.
MaxPlaced == 3

----------------------------------------------------------------------------
(* Characters and the str methods the code uses. *)

EnDash == "ndash"
UpperChars == {"A", "B", "C", "D", "E", "F", "G", "H", "I", "J", "K", "L", "M",
               "N", "O", "P", "Q", "R", "S", "T", "U", "V", "W", "X", "Y", "Z"}
LowerChars == {"a", "b", "c", "d", "e", "f", "g", "h", "i", "j", "k", "l", "m",
               "n", "o", "p", "q", "r", "s", "t", "u", "v", "w", "x", "y", "z"}
DigitChars == {"0", "1", "2", "3", "4", "5", "6", "7", "8", "9"}
Whitespace == {" ", "\n", "\t", "\r"}
\* \w of the re module
WordChars == UpperChars \cup LowerChars \cup DigitChars \cup {"_"}

NL2 == <<"\n", "\n">>
NL4 == <<"\n", "\n", "\n", "\n">>
ContentWarningsMarker ==
    <<"C", "o", "n", "t", "e", "n", "t", " ", "W", "a", "r", "n", "i", "n", "g", "s">>
DistributedBy ==
    <<" ", "i", "s", " ", "a", " ", "p", "o", "d", "c", "a", "s", "t", " ",
      "d", "i", "s", "t", "r", "i", "b", "u", "t", "e", "d", " ", "b", "y">>

Min(S) == CHOOSE m \in S : \A n \in S : m <= n

\* s.find(sub) from position `from` (1-based); 0 when sub does not occur
Find(s, sub, from) ==
    LET hits == {q \in from..(Len(s) - Len(sub) + 1) :
                    SubSeq(s, q, q + Len(sub) - 1) = sub}
    IN  IF hits = {} THEN 0 ELSE Min(hits)

\* sub in s
Contains(s, sub) == Find(s, sub, 1) # 0

\* s.split(sep): the pieces between the non-overlapping occurrences of sep,
\* found left to right
RECURSIVE Split(_, _)
Split(s, sep) ==
    LET p == Find(s, sep, 1)
    IN  IF p = 0 THEN <<s>>
        ELSE <<SubSeq(s, 1, p - 1)>> \o Split(SubSeq(s, p + Len(sep), Len(s)), sep)

\* sep.join(parts)
RECURSIVE Join(_, _)
Join(parts, sep) ==
    IF parts = <<>> THEN <<>>
    ELSE IF Len(parts) = 1 THEN parts[1]
    ELSE parts[1] \o sep \o Join(Tail(parts), sep)

\* s.replace(old, new)
Replace(s, old, new) == Join(Split(s, old), new)

\* s.rstrip()
RECURSIVE RStrip(_)
RStrip(s) ==
    IF s # <<>> /\ s[Len(s)] \in Whitespace THEN RStrip(SubSeq(s, 1, Len(s) - 1)) ELSE s

\* s.lstrip()
RECURSIVE LStrip(_)
LStrip(s) ==
    IF s # <<>> /\ s[1] \in Whitespace THEN LStrip(Tail(s)) ELSE s

\* s.strip()
Strip(s) == LStrip(RStrip(s))

\* s.isupper(): no lower-case character and at least one upper-case character
IsUpper(s) ==
    /\ \A p \in 1..Len(s) : s[p] \notin LowerChars
    /\ \E p \in 1..Len(s) : s[p] \in UpperChars

\* s.startswith('[') and s.endswith(']')
IsBracketed(s) == s # <<>> /\ s[1] = "[" /\ s[Len(s)] = "]"

\* ('-' in s or EN DASH in s) and s.isupper()
IsSceneHeader(s) ==
    (Contains(s, <<"-">>) \/ Contains(s, <<EnDash>>)) /\ IsUpper(s)

\* re.split(r"[^\w\s]", s)[0]: s up to its first character that is neither a
\* word character nor whitespace
ReSplitFirst(s) ==
    LET stops == {p \in 1..Len(s) : s[p] \notin (WordChars \cup Whitespace)}
    IN  IF stops = {} THEN s ELSE SubSeq(s, 1, Min(stops) - 1)

----------------------------------------------------------------------------
(* The keys of parsed_dict. *)

None == "None"
NoneKey == <<None>>
EpisodeInfo == <<"e", "p", "i", "s", "o", "d", "e", "_", "i", "n", "f", "o">>
ContentWarningsKey ==
    <<"c", "o", "n", "t", "e", "n", "t", "_", "w", "a", "r", "n", "i", "n", "g", "s">>
Scenes == <<"s", "c", "e", "n", "e", "s">>
Actions == <<"a", "c", "t", "i", "o", "n", "s">>
FixedKeys == <<EpisodeInfo, ContentWarningsKey, Scenes, Actions>>
FixedKeySet == {EpisodeInfo, ContentWarningsKey, Scenes, Actions}

Range(f) == {f[x] : x \in DOMAIN f}

\* parsed_dict[key].extend(items), or parsed_dict[key] = items for a new key
Extended(d, key, items) ==
    IF key \in DOMAIN d
    THEN [d EXCEPT ![key] = @ \o items]
    ELSE [x \in DOMAIN d \cup {key} |-> IF x = key THEN items ELSE d[x]]

\* the insertion order of the keys after an assignment to d[key]
KeysWith(keys, key) ==
    IF key \in Range(keys) THEN keys ELSE Append(keys, key)

----------------------------------------------------------------------------
(* split_script *)

\* text_chunks[0].split(EN DASH)[0].rstrip()
PodcastName(chunks) == RStrip(Split(chunks[1], <<EnDash>>)[1])

\* '%s is a podcast distributed by' % podcast_name
EndingMarker(name) == name \o DistributedBy

\* the test of a transition to the episode itself
LeavesGate(chunk) == IsBracketed(chunk) \/ IsSceneHeader(chunk)


\* a variant of EndingAfter: ending_info follows the block at hand
EndingAfterMomentary(ending, chunk, name) == Contains(chunk, EndingMarker(name))

\* ending_info after the test of the closing boilerplate
EndingAfter(ending, chunk, name) ==
    IF Contains(chunk, EndingMarker(name)) THEN TRUE ELSE ending

\* the test that opens the preamble / warnings / postamble branch
Gate(beginning, warnings, ending) == beginning \/ warnings \/ ending

\* a variant of BeginningAfter: the marker does not clear beginning_info
BeginningAfterKept(beginning, gate, chunk) == beginning

\* a variant of BeginningAfter: the first scene or action block clears
\* beginning_info too
BeginningAfterCleared(beginning, gate, chunk) ==
    IF gate /\ (Contains(chunk, ContentWarningsMarker) \/ LeavesGate(chunk))
    THEN FALSE ELSE beginning

\* beginning_info after the 'Content Warnings' test inside the branch
BeginningAfter(beginning, gate, chunk) ==
    IF gate /\ Contains(chunk, ContentWarningsMarker) THEN FALSE ELSE beginning

\* content_warnings after the 'Content Warnings' test and the transition test
WarningsAfter(warnings, gate, chunk) ==
    IF gate /\ LeavesGate(chunk) THEN FALSE
    ELSE IF gate /\ Contains(chunk, ContentWarningsMarker) THEN TRUE
    ELSE warnings

\* section of a block consumed inside the branch; one of the three flags is
\* set there, so section is always bound
GateSection(beginning, warnings, ending) ==
    IF beginning \/ ending THEN EpisodeInfo ELSE ContentWarningsKey

\* a variant of Classify: the scene test comes before the bracket test
ClassifySceneFirst(chunk) ==
    IF IsSceneHeader(chunk) THEN "scene"
    ELSE IF IsBracketed(chunk) THEN "action"
    ELSE "dialogue"

\* the order of the tests below the branch: action, then scene, then dialogue
Classify(chunk) ==
    IF IsBracketed(chunk) THEN "action"
    ELSE IF IsSceneHeader(chunk) THEN "scene"
    ELSE "dialogue"

\* a variant of ActionStrings: the closing bracket is not put back
ActionStringsOpen(chunk) ==
    LET parts == Split(Replace(chunk, NL2, <<>>), <<"]">>)
    IN  [j \in 1..(Len(parts) - 1) |-> parts[j]]

\* [cur_action + "]" for cur_action in chunk.replace('\n\n', '').split(']')[:-1]]
ActionStrings(chunk) ==
    LET parts == Split(Replace(chunk, NL2, <<>>), <<"]">>)
    IN  [j \in 1..(Len(parts) - 1) |-> parts[j] \o <<"]">>]

\* chunk.replace('\n\n', '')
SceneText(chunk) == Replace(chunk, NL2, <<>>)

\* whether split_chunk_list[0].isupper()
HasLabel(chunk) == IsUpper(Split(chunk, NL2)[1])

\* a variant of DialogueSpeaker: the first segment is taken for a label
\* without the upper-case test
DialogueSpeakerUnchecked(chunk, last) ==
    RStrip(ReSplitFirst(Split(chunk, NL2)[1]))

\* speaker
DialogueSpeaker(chunk, last) ==
    IF HasLabel(chunk) THEN RStrip(ReSplitFirst(Split(chunk, NL2)[1])) ELSE last

\* remaining_text
DialogueText(chunk) ==
    IF HasLabel(chunk) THEN Join(Tail(Split(chunk, NL2)), <<" ">>) ELSE chunk

\* what one pass of the loop body does with text_chunks[n] in the given state:
\* the flags after it, the key it writes and the texts it adds
Pass(n) ==
    LET chunk == Strip(text_chunks[n])
        ending == EndingAfter(ending_info, chunk, podcast_name)
        gate == Gate(beginning_info, content_warnings, ending)
        beginning == BeginningAfter(beginning_info, gate, chunk)
        warnings == WarningsAfter(content_warnings, gate, chunk)
        kind == IF gate /\ ~LeavesGate(chunk) THEN "info" ELSE Classify(chunk)
    IN  [ chunk |-> chunk,
          gate |-> gate,
          beginning |-> beginning,
          warnings |-> warnings,
          ending |-> ending,
          kind |-> kind,
          key |-> CASE kind = "info" -> GateSection(beginning, warnings, ending)
                    [] kind = "action" -> Actions
                    [] kind = "scene" -> Scenes
                    [] kind = "dialogue" -> DialogueSpeaker(chunk, last_speaker),
          items |-> CASE kind = "info" -> Split(chunk, NL2)
                      [] kind = "action" -> ActionStrings(chunk)
                      [] kind = "scene" -> <<SceneText(chunk)>>
                      [] kind = "dialogue" -> <<DialogueText(chunk)>>,
          speaker |-> IF kind = "dialogue"
                      THEN DialogueSpeaker(chunk, last_speaker)
                      ELSE last_speaker ]

\* lines 50-66: the empty dictionary, the rough split, the podcast name, the flags
SplitStart ==
    /\ pc = "split"
    /\ parsed_keys' = FixedKeys
    /\ parsed_dict' = [x \in FixedKeySet |-> <<>>]
    /\ text_chunks' = Split(raw_text, NL4)
    /\ podcast_name' = PodcastName(Split(raw_text, NL4))
    /\ last_speaker' = NoneKey
    /\ beginning_info' = TRUE
    /\ content_warnings' = FALSE
    /\ ending_info' = FALSE
    /\ i' = 1
    /\ pc' = "loop"
    /\ UNCHANGED <<raw_text, scanVars>>

\* lines 67-127: one iteration of the loop over text_chunks
ProcessChunk ==
    /\ pc = "loop"
    /\ i <= Len(text_chunks)
    /\ LET p == Pass(i)
       IN  /\ ending_info' = p.ending
           /\ beginning_info' = p.beginning
           /\ content_warnings' = p.warnings
           /\ parsed_dict' = Extended(parsed_dict, p.key, p.items)
           /\ parsed_keys' = KeysWith(parsed_keys, p.key)
           /\ last_speaker' = p.speaker
    /\ i' = i + 1
    /\ pc' = IF i + 1 > Len(text_chunks) THEN "done" ELSE "loop"
    /\ UNCHANGED <<raw_text, text_chunks, podcast_name, scanVars>>

----------------------------------------------------------------------------
(* The scripts split_script is run on: at most MaxBlocks blocks, each one of *)
(* BlockTexts, joined by four newlines.                                      *)

TitleBlock == <<"R", "Q", " ", EnDash, " ", "E", "p">>
EmptyBlock == <<>>
WarningsBlock ==
    <<"C", "o", "n", "t", "e", "n", "t", " ", "W", "a", "r", "n", "i", "n", "g", "s",
      "\n", "\n", "G", "o", "r", "e">>
BracketWarningsBlock ==
    <<"[", "C", "o", "n", "t", "e", "n", "t", " ", "W", "a", "r", "n", "i", "n", "g", "s", "]">>
ActionBlock == <<"[", "A", "-", "B", "]", "\n", "\n", "[", "C", "]">>
SceneBlock == <<"I", "N", "T", " ", EnDash, "\n", "\n", "A">>
JoBlock == <<"J", "O", " ", "(", "V", "O", ")", "\n", "\n", "h", "i", "\n", "\n", "y", "o">>
AlBlock == <<"A", "L", "\n", "\n", "n", "o">>
PlainBlock == <<" ", "o", "k", "\n">>
EndingBlock ==
    <<"R", "Q", " ", "i", "s", " ", "a", " ", "p", "o", "d", "c", "a", "s", "t", " ",
      "d", "i", "s", "t", "r", "i", "b", "u", "t", "e", "d", " ", "b", "y", " ", "X">>

BlockTexts == {TitleBlock, EmptyBlock, WarningsBlock, BracketWarningsBlock,
               ActionBlock, SceneBlock, JoBlock, AlBlock, PlainBlock, EndingBlock}

Scripts ==
    {Join(bs, NL4) : bs \in UNION {[1..n -> BlockTexts] : n \in 1..MaxBlocks}}

\* before profanity_counter is called
ScanIdle ==
    /\ ignore_keys = {}
    /\ censored_words = <<>>
    /\ k = 0
    /\ profanity_dict = <<>>
    /\ overall = <<>>
    /\ all_profane_words = <<>>
    /\ most_profane = <<NoneKey, 0>>

\* load_script has set raw_text; split_script has not started
Init ==
    /\ pc = "split"
    /\ raw_text \in Scripts
    /\ text_chunks = <<>>
    /\ podcast_name = <<>>
    /\ i = 0
    /\ last_speaker = NoneKey
    /\ beginning_info = FALSE
    /\ content_warnings = FALSE
    /\ ending_info = FALSE
    /\ parsed_keys = <<>>
    /\ parsed_dict = <<>>
    /\ ScanIdle

Next == SplitStart \/ ProcessChunk

Spec == Init /\ [][Next]_vars

----------------------------------------------------------------------------
(* profanity_counter *)

UpperSeq == <<"A", "B", "C", "D", "E", "F", "G", "H", "I", "J", "K", "L", "M",
              "N", "O", "P", "Q", "R", "S", "T", "U", "V", "W", "X", "Y", "Z">>
LowerSeq == <<"a", "b", "c", "d", "e", "f", "g", "h", "i", "j", "k", "l", "m",
              "n", "o", "p", "q", "r", "s", "t", "u", "v", "w", "x", "y", "z">>

\* the case folding of re.IGNORECASE
ToLower(c) ==
    IF c \in UpperChars THEN LowerSeq[CHOOSE p \in 1..26 : UpperSeq[p] = c] ELSE c

\* \b between s[p] and s[p + 1]: exactly one side is a word character
WordBoundary(s, p) ==
    (p >= 1 /\ s[p] \in WordChars) # (p < Len(s) /\ s[p + 1] \in WordChars)

\* whether \bword\b, ignoring case, matches s at position q
MatchesAt(s, word, q) ==
    /\ q + Len(word) - 1 <= Len(s)
    /\ \A j \in 1..Len(word) : ToLower(s[q + j - 1]) = ToLower(word[j])
    /\ WordBoundary(s, q - 1)
    /\ WordBoundary(s, q + Len(word) - 1)

\* len(re.findall(r'\bword\b', s, re.IGNORECASE)) from position q on: the
\* matches are found left to right and do not overlap
RECURSIVE CountFrom(_, _, _)
CountFrom(s, word, q) ==
    IF q > Len(s) THEN 0
    ELSE IF MatchesAt(s, word, q) THEN 1 + CountFrom(s, word, q + Len(word))
    ELSE CountFrom(s, word, q + 1)

\* number_of_occurrences
NumberOfOccurrences(word, chunk) == CountFrom(chunk, word, 1)

\* [word] * n
RECURSIVE Repeat(_, _)
Repeat(word, n) == IF n = 0 THEN <<>> ELSE <<word>> \o Repeat(word, n - 1)

\* cur_profane_words of a chunk: for each censored word in turn, one entry
\* per occurrence
RECURSIVE CurProfaneWords(_, _)
CurProfaneWords(words, chunk) ==
    IF words = <<>> THEN <<>>
    ELSE Repeat(Head(words), NumberOfOccurrences(Head(words), chunk))
            \o CurProfaneWords(Tail(words), chunk)

\* [item for sublist in lists for item in sublist]
RECURSIVE Flatten(_)
Flatten(lists) ==
    IF lists = <<>> THEN <<>> ELSE Head(lists) \o Flatten(Tail(lists))

\* Counter(items)
RECURSIVE Counter(_)
Counter(items) ==
    IF items = <<>> THEN EmptyBag
    ELSE Counter(Tail(items)) (+) SetToBag({Head(items)})

\* the inner loop over the chunks of a section (0-based positions), from
\* position n on: the index and profane_words lists it builds
RECURSIVE ScanChunks(_, _, _)
ScanChunks(section, words, n) ==
    IF n > Len(section) THEN [index |-> <<>>, profane_words |-> <<>>]
    ELSE LET cur == CurProfaneWords(words, section[n])
             rest == ScanChunks(section, words, n + 1)
         IN  IF cur # <<>>
             THEN [index |-> <<n - 1>> \o rest.index,
                   profane_words |-> <<cur>> \o rest.profane_words]
             ELSE rest

\* a variant of Ignored: no section is skipped
IgnoredNever(key, ignore) == FALSE

\* key in ignore_keys
Ignored(key, ignore) == key \in ignore

\* a variant of MostProfaneAfter: an equal count replaces the section
MostProfaneAfterLax(most, key, count) ==
    IF most[2] <= count THEN <<key, count>> ELSE most

\* most_profane after a section with a match
MostProfaneAfter(most, key, count) ==
    IF most[2] < count THEN <<key, count>> ELSE most

\* lines 162-170: 'default' stands for the four non-dialogue keys
ResolveIgnore(arg) == IF arg.default THEN FixedKeySet ELSE arg.keys

JoKey == <<"J", "O">>
AlKey == <<"A", "L">>
Dang == <<"d", "a", "n", "g">>
Heck == <<"h", "e", "c", "k">>

\* the ignore_keys arguments: 'default', [] (scan everything), one speaker
IgnoreArgs == {[default |-> TRUE, keys |-> {}],
               [default |-> FALSE, keys |-> {}],
               [default |-> FALSE, keys |-> {JoKey}]}

\* the lexicons, in the order get_profane_words returns them
Lexicons == {<<>>, <<Dang>>, <<Dang, Heck>>, <<Heck, Dang>>}

\* lines 161-183: the arguments, the empty profanity_dict, the accumulators
CounterStart ==
    /\ pc = "counter"
    /\ \E arg \in IgnoreArgs : ignore_keys' = ResolveIgnore(arg)
    /\ censored_words' \in Lexicons
    /\ profanity_dict' = [x \in DOMAIN parsed_dict |->
                            [index |-> <<>>, profane_words |-> <<>>,
                             profane_counter |-> <<>>]]
    /\ all_profane_words' = <<>>
    /\ most_profane' = <<NoneKey, 0>>
    /\ overall' = <<>>
    /\ k' = 1
    /\ pc' = "scan"
    /\ UNCHANGED <<splitVars, parsed_keys, parsed_dict>>

\* lines 184-218: one iteration of the loop over parsed_dict.items()
ScanSection ==
    /\ pc = "scan"
    /\ k <= Len(parsed_keys)
    /\ LET key == parsed_keys[k]
           found == ScanChunks(parsed_dict[key], censored_words, 1)
           section_profane_words == Flatten(found.profane_words)
       IN  IF Ignored(key, ignore_keys)
           THEN UNCHANGED <<profanity_dict, all_profane_words, most_profane>>
           ELSE IF found.index = <<>>
           THEN UNCHANGED <<profanity_dict, all_profane_words, most_profane>>
           ELSE /\ profanity_dict' =
                     [profanity_dict EXCEPT ![key] =
                         [index |-> found.index,
                          profane_words |-> found.profane_words,
                          profane_counter |-> <<Counter(section_profane_words)>>]]
                /\ all_profane_words' = all_profane_words \o section_profane_words
                /\ most_profane' =
                     MostProfaneAfter(most_profane, key, Len(section_profane_words))
    /\ k' = k + 1
    /\ UNCHANGED <<pc, splitVars, parsed_keys, parsed_dict, ignore_keys,
                   censored_words, overall>>

\* line 222: profanity_dict['overall']
CounterFinish ==
    /\ pc = "scan"
    /\ k > Len(parsed_keys)
    /\ overall' = <<Counter(all_profane_words)>>
    /\ pc' = "scanned"
    /\ UNCHANGED <<splitVars, parsed_keys, parsed_dict, ignore_keys,
                   censored_words, k, profanity_dict, all_profane_words,
                   most_profane>>

----------------------------------------------------------------------------
(* The parsed scripts profanity_counter is run on: the four fixed sections   *)
(* and the speakers' sections, built as split_script builds them, by         *)
(* appending at most MaxPlaced texts of ScanTexts, each to one section.      *)

LoudText == <<"D", "A", "N", "G", "!", " ", "d", "a", "n", "g">>
CleanText == <<"d", "a", "n", "g", "l", "e">>
MixedText == <<"h", "e", "c", "k", ",", " ", "D", "a", "n", "g", ".">>
ScanTexts == {LoudText, CleanText, MixedText}
ScanSections == {EpisodeInfo, ContentWarningsKey, JoKey, AlKey}

Placements ==
    UNION {[1..n -> ScanSections \X ScanTexts] : n \in 0..MaxPlaced}

RECURSIVE PlacedDict(_)
PlacedDict(ps) ==
    IF ps = <<>> THEN [x \in FixedKeySet |-> <<>>]
    ELSE LET ini == SubSeq(ps, 1, Len(ps) - 1)
             last == ps[Len(ps)]
         IN  Extended(PlacedDict(ini), last[1], <<last[2]>>)

RECURSIVE PlacedKeys(_)
PlacedKeys(ps) ==
    IF ps = <<>> THEN FixedKeys
    ELSE KeysWith(PlacedKeys(SubSeq(ps, 1, Len(ps) - 1)), ps[Len(ps)][1])

\* split_script has returned; profanity_counter is about to be called
InitScan ==
    /\ pc = "counter"
    /\ raw_text = <<>>
    /\ text_chunks = <<>>
    /\ podcast_name = <<>>
    /\ i = 0
    /\ last_speaker = NoneKey
    /\ beginning_info = FALSE
    /\ content_warnings = FALSE
    /\ ending_info = FALSE
    /\ \E ps \in Placements :
          /\ parsed_keys = PlacedKeys(ps)
          /\ parsed_dict = PlacedDict(ps)
    /\ ScanIdle

NextScan == CounterStart \/ ScanSection \/ CounterFinish

SpecScan == InitScan /\ [][NextScan]_vars

----------------------------------------------------------------------------
(* Properties of split_script (under Spec). *)

\* the loop of split_script has started
Splitting == pc \in {"loop", "done"}

\* the stripped text of block n
Block(n) == Strip(text_chunks[n])

\* the blocks the loop has processed
Processed == 1..(i - 1)

\* s without its whitespace characters
NonWs(s) == SelectSeq(s, LAMBDA c : c \notin Whitespace)

\* C1 as stated: after every block at most one of beginning_info,
\* content_warnings and ending_info is true.
C1_FlagsMutuallyExclusive ==
    Splitting =>
        /\ ~(beginning_info /\ content_warnings)
        /\ ~(beginning_info /\ ending_info)
        /\ ~(content_warnings /\ ending_info)

\* C1 amended: beginning_info and content_warnings are never both true
\* (ending_info may hold together with either of them).
C1_BeginningWarningsExclusive ==
    Splitting => ~(beginning_info /\ content_warnings)

\* the warnings phase has been entered, so beginning_info has been cleared,
\* and the closing boilerplate has been seen while the warnings phase lasts
C1_Witness ==
    /\ pc = "done"
    /\ content_warnings /\ ending_info /\ ~beginning_info
    /\ \E n \in Processed : Contains(Block(n), ContentWarningsMarker)

\* the sections a step writes, what each held before and what the step added
GrownKeys ==
    {x \in DOMAIN parsed_dict' :
        x \notin DOMAIN parsed_dict \/ parsed_dict'[x] # parsed_dict[x]}
OldChunks(x) == IF x \in DOMAIN parsed_dict THEN parsed_dict[x] ELSE <<>>
AddedChunks(x) ==
    SubSeq(parsed_dict'[x], Len(OldChunks(x)) + 1, Len(parsed_dict'[x]))
OnlyAppends ==
    \A x \in DOMAIN parsed_dict :
        /\ x \in DOMAIN parsed_dict'
        /\ Len(parsed_dict'[x]) >= Len(parsed_dict[x])
        /\ SubSeq(parsed_dict'[x], 1, Len(parsed_dict[x])) = parsed_dict[x]

\* the step appends to exactly one section and rewrites nothing
PlacedOnce == OnlyAppends /\ Cardinality(GrownKeys) = 1

\* the step writes a speaker's section from a block with an upper-case label
LabelledStep ==
    /\ GrownKeys \cap FixedKeySet = {}
    /\ IsUpper(Split(Block(i), NL2)[1])

\* C2 as stated: every block is appended to exactly one section and none of
\* its text is dropped (whitespace aside).
C2_EveryBlockKeptOnce ==
    [][pc = "loop" =>
        /\ PlacedOnce
        /\ \A x \in GrownKeys :
              NonWs(Flatten(AddedChunks(x))) = NonWs(text_chunks[i])]_vars

\* C2 amended: every block is appended to exactly one section, and its text
\* (whitespace aside) is what is appended, except that of a dialogue block
\* with an upper-case label the first segment is not stored: the speaker name
\* taken from it is the key of the section and the rest of the label is lost.
C2_EveryBlockPlacedOnce ==
    [][pc = "loop" =>
        /\ PlacedOnce
        /\ \A x \in GrownKeys :
              IF LabelledStep
              THEN /\ x = RStrip(ReSplitFirst(Split(Block(i), NL2)[1]))
                   /\ NonWs(Flatten(AddedChunks(x)))
                        = NonWs(Flatten(Tail(Split(Block(i), NL2))))
              ELSE NonWs(Flatten(AddedChunks(x))) = NonWs(text_chunks[i])]_vars

\* a labelled dialogue block, an action block of two actions and an
\* unlabelled block have each been placed
C2_Witness ==
    /\ pc = "done"
    /\ JoKey \in DOMAIN parsed_dict
    /\ parsed_dict[JoKey] = <<<<"h", "i", " ", "y", "o">>, <<"o", "k">>>>
    /\ parsed_dict[Actions] =
          <<<<"[", "C", "o", "n", "t", "e", "n", "t", " ",
              "W", "a", "r", "n", "i", "n", "g", "s", "]">>,
            <<"[", "A", "-", "B", "]">>, <<"[", "C", "]">>>>

\* C3 as stated: no section is keyed by the undefined speaker; every key
\* other than the four fixed ones is the name taken from the upper-case label
\* of a block.
C3_NoUndefinedSpeakerKey ==
    Splitting =>
        \A x \in DOMAIN parsed_dict \ FixedKeySet :
            /\ x # NoneKey
            /\ \E n \in Processed :
                  /\ IsUpper(Split(Block(n), NL2)[1])
                  /\ x = RStrip(ReSplitFirst(Split(Block(n), NL2)[1]))

\* C4 as stated: on the empty text split_script does not return and leaves
\* no entry in parsed_dict.
C4_EmptyScriptRejected ==
    raw_text = <<>> =>
        /\ pc # "done"
        /\ \A x \in DOMAIN parsed_dict : parsed_dict[x] = <<>>

\* C7: once a processed block holds the closing boilerplate, ending_info is
\* true, after that block and after every later one.
C7_EndingIsIrrevocable ==
    Splitting =>
        ((\E n \in Processed : Contains(Block(n), EndingMarker(podcast_name)))
            => ending_info)

\* the boilerplate block was followed by a block without the boilerplate
C7_Witness ==
    /\ pc = "done"
    /\ ending_info
    /\ \E n \in Processed :
          /\ Contains(Block(n), EndingMarker(podcast_name))
          /\ n + 1 \in Processed
          /\ ~Contains(Block(n + 1), EndingMarker(podcast_name))
          /\ IsBracketed(Block(n + 1))

\* the block at hand is classified in the body state (no flag set, the
\* closing boilerplate not in it), and is a dialogue block there
InBody ==
    /\ ~beginning_info /\ ~content_warnings /\ ~ending_info
    /\ ~Contains(Block(i), EndingMarker(podcast_name))
BodyDialogue == InBody /\ ~IsBracketed(Block(i)) /\ ~IsSceneHeader(Block(i))

\* d with the text appended to the section of key, made if it is not there
WithAppended(d, key, text) ==
    [x \in DOMAIN d \cup {key} |->
        IF x = key THEN (IF key \in DOMAIN d THEN d[key] ELSE <<>>) \o <<text>>
        ELSE d[x]]

\* C8: in the body state an unlabelled dialogue block is appended whole to
\* the last speaker's section and leaves the last speaker; a labelled one is
\* appended to the section of the name taken from the label, which becomes
\* the last speaker; no other block changes the last speaker.
C8_DialogueAttribution ==
    [][pc = "loop" =>
        LET first == Split(Block(i), NL2)[1]
            name == RStrip(ReSplitFirst(first))
        IN  /\ (BodyDialogue /\ ~IsUpper(first)) =>
                 /\ last_speaker' = last_speaker
                 /\ parsed_dict' = WithAppended(parsed_dict, last_speaker, Block(i))
            /\ (BodyDialogue /\ IsUpper(first)) =>
                 /\ last_speaker' = name
                 /\ name \in DOMAIN parsed_dict'
                 /\ Len(parsed_dict'[name]) = Len(OldChunks(name)) + 1
                 /\ PlacedOnce /\ GrownKeys = {name}
            /\ ~BodyDialogue => last_speaker' = last_speaker]_vars

\* JO spoke, an action block came between, and the unlabelled block after it
\* went to JO, who is still the last speaker
C8_Witness ==
    /\ pc = "done"
    /\ Len(text_chunks) = 4
    /\ IsUpper(Split(Block(2), NL2)[1])
    /\ IsBracketed(Block(3))
    /\ Block(4) = <<"o", "k">>
    /\ last_speaker = JoKey
    /\ parsed_dict[JoKey] = <<<<"h", "i", " ", "y", "o">>, <<"o", "k">>>>

\* the block at hand passes the gate: the branch is not entered, or it is
\* left through the transition test
GateOpen ==
    \/ beginning_info \/ content_warnings \/ ending_info
    \/ Contains(Block(i), EndingMarker(podcast_name))
PassesGate == ~GateOpen \/ IsBracketed(Block(i)) \/ IsSceneHeader(Block(i))

\* C9: a bracketed block that passes the gate is appended to actions alone,
\* whatever else it is; scenes receives only an unbracketed upper-case block
\* with a hyphen or an en dash; a block that left the gate through the
\* transition test is never taken as dialogue.
C9_BracketBeforeScene ==
    [][pc = "loop" =>
        /\ (PassesGate /\ IsBracketed(Block(i))) =>
              PlacedOnce /\ GrownKeys = {Actions}
        /\ (Scenes \in GrownKeys) =>
              /\ ~IsBracketed(Block(i))
              /\ IsUpper(Block(i))
              /\ (Contains(Block(i), <<"-">>) \/ Contains(Block(i), <<EnDash>>))
        /\ (PassesGate /\ ~IsBracketed(Block(i)) /\ IsSceneHeader(Block(i))) =>
              PlacedOnce /\ GrownKeys = {Scenes}
        /\ (GateOpen /\ PassesGate) =>
              /\ GrownKeys \subseteq {Actions, Scenes}
              /\ last_speaker' = last_speaker]_vars

\* a bracketed upper-case block with a hyphen went to actions in the body
\* state, and no block went to scenes
C9_Witness ==
    /\ pc = "done"
    /\ ~beginning_info /\ ~content_warnings /\ ~ending_info
    /\ \E n \in Processed :
          n > 1 /\ IsBracketed(Block(n)) /\ IsSceneHeader(Block(n))
    /\ parsed_dict[Scenes] = <<>>
    /\ Len(parsed_dict[Actions]) >= 3

\* no block of the script contains 'Content Warnings'
NoWarningsMarker ==
    \A n \in 1..Len(text_chunks) : ~Contains(Block(n), ContentWarningsMarker)

\* the segments of the first n blocks that are neither bracketed nor
\* upper-case with a hyphen or en dash
RECURSIVE InfoSegments(_)
InfoSegments(n) ==
    IF n = 0 THEN <<>>
    ELSE InfoSegments(n - 1) \o
            (IF IsBracketed(Block(n)) \/ IsSceneHeader(Block(n))
             THEN <<>> ELSE Split(Block(n), NL2))

\* C10: beginning_info is cleared only by a block that contains 'Content
\* Warnings'; in a script without one it stays true, no speaker's section is
\* made and every block that is neither bracketed nor a scene header goes to
\* episode_info.
C10_BeginningWithoutWarnings ==
    /\ [](Splitting /\ NoWarningsMarker =>
            /\ beginning_info
            /\ DOMAIN parsed_dict = FixedKeySet
            /\ parsed_dict[EpisodeInfo] = InfoSegments(i - 1)
            /\ parsed_dict[ContentWarningsKey] = <<>>)
    /\ [][(beginning_info /\ ~beginning_info') =>
            /\ pc = "loop"
            /\ GateOpen
            /\ Contains(Block(i), ContentWarningsMarker)]_vars

\* a script without the marker: after a scene block and an action block, a
\* block with a speaker label went to episode_info
C10_Witness ==
    /\ pc = "done"
    /\ NoWarningsMarker
    /\ Len(text_chunks) = 4
    /\ IsSceneHeader(Block(2)) /\ ~IsBracketed(Block(2))
    /\ IsBracketed(Block(3))
    /\ IsUpper(Split(Block(4), NL2)[1])
    /\ ~IsSceneHeader(Block(4))
    /\ parsed_dict[Scenes] # <<>>
    /\ parsed_dict[Actions] # <<>>
    /\ Len(parsed_dict[EpisodeInfo]) >= 3

----------------------------------------------------------------------------
(* Properties of profanity_counter (under SpecScan). *)

\* the sum of f over the integers lo..hi
RECURSIVE SumOver(_, _, _)
SumOver(f(_), lo, hi) == IF lo > hi THEN 0 ELSE f(lo) + SumOver(f, lo + 1, hi)

\* the occurrences of a word, ignoring case and as a whole word, in the
\* texts of a section
WordInSection(word, key) ==
    LET inChunk(n) == NumberOfOccurrences(word, parsed_dict[key][n])
    IN  SumOver(inChunk, 1, Len(parsed_dict[key]))

\* the occurrences of all censored words in a section
SectionTotal(key) ==
    LET ofWord(n) == WordInSection(censored_words[n], key)
    IN  SumOver(ofWord, 1, Len(censored_words))

\* the positions, in scan order, of the sections that are not ignored
ScannedPositions == {n \in 1..Len(parsed_keys) : parsed_keys[n] \notin ignore_keys}

\* the tally of a section's profane_counter; None tallies nothing
TallyOf(key, word) ==
    IF profanity_dict[key].profane_counter = <<>> THEN 0
    ELSE CopiesIn(word, profanity_dict[key].profane_counter[1])

\* C5: the 'overall' counter is the element-wise sum of the profane_counter
\* tallies of the sections that are not ignored, each of which tallies the
\* occurrences in its section; ignored sections add nothing to it.
C5_OverallIsSumOfSections ==
    pc = "scanned" =>
        /\ \A word \in Range(censored_words) \cup BagToSet(overall[1]) :
              LET tally(n) == IF n \in ScannedPositions
                              THEN TallyOf(parsed_keys[n], word) ELSE 0
                  found(n) == IF n \in ScannedPositions
                              THEN WordInSection(word, parsed_keys[n]) ELSE 0
              IN  /\ CopiesIn(word, overall[1]) = SumOver(tally, 1, Len(parsed_keys))
                  /\ CopiesIn(word, overall[1]) = SumOver(found, 1, Len(parsed_keys))
        /\ \A n \in 1..Len(parsed_keys) :
              n \notin ScannedPositions =>
                 /\ profanity_dict[parsed_keys[n]].profane_counter = <<>>
                 /\ profanity_dict[parsed_keys[n]].index = <<>>

\* an ignored section holds profane words, two scanned sections hold some
\* too, and a scanned section holds none
C5_Witness ==
    /\ pc = "scanned"
    /\ \E a, b, c, d \in 1..Len(parsed_keys) :
          /\ a \notin ScannedPositions /\ SectionTotal(parsed_keys[a]) > 0
          /\ b \in ScannedPositions /\ SectionTotal(parsed_keys[b]) > 0
          /\ c \in ScannedPositions /\ SectionTotal(parsed_keys[c]) > 0
          /\ b # c
          /\ d \in ScannedPositions /\ SectionTotal(parsed_keys[d]) = 0
    /\ BagCardinality(overall[1]) >= 2

\* the largest total of a scanned section, 0 when none is scanned
MaxTotal ==
    LET totals == {SectionTotal(parsed_keys[n]) : n \in ScannedPositions} \cup {0}
    IN  CHOOSE m \in totals : \A t \in totals : t <= m

\* C6: after the scan most_profane is the first section in scan order whose
\* total is the largest total of a scanned section, with that total; it is
\* [None, 0] exactly when no scanned section has a match.
C6_MostProfaneIsFirstMaximum ==
    pc = "scanned" =>
        /\ (most_profane = <<NoneKey, 0>>) = (MaxTotal = 0)
        /\ MaxTotal > 0 =>
              LET first == Min({n \in ScannedPositions :
                                   SectionTotal(parsed_keys[n]) = MaxTotal})
              IN  most_profane = <<parsed_keys[first], MaxTotal>>

\* two scanned sections tie at the largest total, after a section with a
\* smaller positive total
C6_Witness ==
    /\ pc = "scanned"
    /\ \E a, b, c \in ScannedPositions :
          /\ a < b /\ b < c
          /\ 0 < SectionTotal(parsed_keys[a])
          /\ SectionTotal(parsed_keys[a]) < SectionTotal(parsed_keys[b])
          /\ SectionTotal(parsed_keys[b]) = SectionTotal(parsed_keys[c])
          /\ SectionTotal(parsed_keys[b]) = MaxTotal
          /\ most_profane[1] = parsed_keys[b]

====
